---- MODULE Spec2Model ----
(***************************************************************************)
(* Model of log_analyzer_module/log_analyzer.py (class LogAnalyzer): the   *)
(* full scan parse_logs, the incremental scan parse_new_logs_only with its *)
(* per-file read positions, the line classifier _process_log_line, the     *)
(* summary call generate_ai_summary and the loop                           *)
(* run_continuous_monitoring, together with the log directory they read.   *)
(*                                                                         *)
(* Text is a sequence of one-character strings; a file's size in bytes is  *)
(* the length of its content (all characters written are one byte long).   *)
(***************************************************************************)
EXTENDS Integers, Sequences, FiniteSets, TLC

\* ------------------------------------------------------------------ bounds

\* Lines present in the whole directory at any time.
MaxTotalLines == 2

\* Pieces that make up a line of the log under classification.
MaxTokens == 3
\* The most bytes the writers that write byte by byte write in all.
MaxBytes == 4

\* ------------------------------------------------------- the configuration

Files == {"a.log", "b.log"}

\* The threads that share the LogAnalyzer.
Callers == {"t1", "t2"}

startup_msg == <<"u", "p">>
stop_msg == <<"d", "n">>
search_list == << <<"E">>, <<"W">> >>

\* An octet that is not valid UTF-8 (0xFF).
BadByte == "#"

Digits == {"0", "1", "2", "3", "4", "5", "6", "7", "8", "9"}

UnknownTime == <<"U", "n", "k", "n", "o", "w", "n", " ", "T", "i", "m", "e">>

\* What the log writers write, each followed by a newline: a startup line, a
\* shutdown line, a line with a search term, a line that matches nothing and a
\* line that is not valid UTF-8.
LineSet ==
  { <<"u", "p">>, <<"d", "n">>, <<"W", "!">>, <<"o", "k">>, <<BadByte, "!">> }

\* Two texts that time_pattern matches.
Time1 ==
  << "0", "1", "-", "0", "2", "-", "2", "0", "2", "6", " ",
     "0", "3", ":", "0", "4", ":", "0", "5" >>
Time2 ==
  << "1", "1", "-", "1", "2", "-", "2", "0", "2", "7", " ",
     "1", "3", ":", "1", "4", ":", "1", "5" >>

\* What a line of a log is made of: the startup and the stop message, the
\* search terms, timestamps.
Tokens == { startup_msg, stop_msg, <<"E">>, <<"W">>, Time1, Time2 }

RECURSIVE Flatten(_)
Flatten(pieces) ==
  IF pieces = <<>> THEN <<>> ELSE Head(pieces) \o Flatten(Tail(pieces))

\* The lines of up to MaxTokens pieces, without their newline.
TokenLines ==
  { Flatten(pieces) : pieces \in UNION { [1..n -> Tokens] : n \in 1..MaxTokens } }

\* ------------------------------------------------------------------- state

VARIABLES
  dir_exists,      \* the directory directory_path exists
  present,         \* the names in the directory that end in .log
  content,         \* per name: the bytes of the file
  file_positions,  \* self.file_positions: a dict, file -> offset
  result,          \* what the scan call of this step returned (or that it
                   \* raised); NoCall when the step was no scan call
  faults,          \* per name: the system call that failed for it during the
                   \* scan call of this step ("none", "stat" or "open")
  since,           \* what happened to the files since the last scan call
  pc,              \* run_continuous_monitoring: "Idle", "Polling", "Stopped"
  exit,            \* why the loop stopped
  full_scans,      \* the calls of parse_logs made by the loop so far
  tick             \* the workflow step taken in this step ("analysis":
                   \* run_analysis, "analysis_only": run_analysis with
                   \* generate_summary=False, "start": the initial scan,
                   \* "poll": an iteration): what the scan returned and the
                   \* summarizer call that followed
VARIABLES
  callers          \* per thread that calls parse_new_logs_only on the one
                   \* LogAnalyzer: where it is in the call, and its locals

VARIABLES
  handles,         \* the files the scanner holds an open handle of
  loop_new_data,   \* new_data of the iteration the monitoring loop is in
  reported         \* what a caller's incremental scans have returned so far,
                   \* put together

vars == << dir_exists, present, content, file_positions, result, faults, since,
           pc, exit, full_scans, tick, callers, handles, loop_new_data,
           reported >>

\* ---------------------------------------------------------------- strings

\* Python's `p in s` for strings.
Contains(p, s) ==
  \E i \in 1..(Len(s) - Len(p) + 1) :
    \A j \in 1..Len(p) : s[i + j - 1] = p[j]

Whitespace == {" ", "\n", "\t", "\r"}

RECURSIVE LStrip(_)
LStrip(s) ==
  IF s # <<>> /\ Head(s) \in Whitespace THEN LStrip(Tail(s)) ELSE s

RECURSIVE RStrip(_)
RStrip(s) ==
  IF s # <<>> /\ s[Len(s)] \in Whitespace
  THEN RStrip(SubSeq(s, 1, Len(s) - 1))
  ELSE s

\* str.strip()
Strip(s) == RStrip(LStrip(s))

\* Whether \d{2}-\d{2}-\d{4} \d{2}:\d{2}:\d{2} matches s at index i.
TimeMatchesAt(s, i) ==
  /\ i + 18 <= Len(s)
  /\ \A k \in {0, 1, 3, 4, 6, 7, 8, 9, 11, 12, 14, 15, 17, 18} :
       s[i + k] \in Digits
  /\ s[i + 2] = "-" /\ s[i + 5] = "-"
  /\ s[i + 10] = " "
  /\ s[i + 13] = ":" /\ s[i + 16] = ":"

\* As Timestamp, with the rightmost match.
TimestampLast(line) ==
  LET hits == { i \in 1..Len(line) : TimeMatchesAt(line, i) }
  IN IF hits = {} THEN UnknownTime
     ELSE LET last == CHOOSE i \in hits : \A k \in hits : i >= k
          IN SubSeq(line, last, last + 18)

\* time_pattern.search(line): the leftmost match, or "Unknown Time".
Timestamp(line) ==
  LET hits == { i \in 1..Len(line) : TimeMatchesAt(line, i) }
  IN IF hits = {} THEN UnknownTime
     ELSE LET first == CHOOSE i \in hits : \A k \in hits : i <= k
          IN SubSeq(line, first, first + 18)

\* Iterating a text file: the lines, each with its newline; a last line
\* without a newline is a line too.
RECURSIVE SplitLines(_)
SplitLines(s) ==
  IF s = <<>> THEN <<>>
  ELSE LET nl == { i \in 1..Len(s) : s[i] = "\n" }
       IN IF nl = {} THEN << s >>
          ELSE LET e == CHOOSE i \in nl : \A k \in nl : i <= k
               IN << SubSeq(s, 1, e) >> \o SplitLines(SubSeq(s, e + 1, Len(s)))

\* Decoding a chunk with errors='strict' raises UnicodeDecodeError when the
\* chunk holds an invalid octet. A file below the 8192-byte chunk size is
\* decoded in one piece, before its first line is handed out.
DecodeFails(s) == \E i \in 1..Len(s) : s[i] = BadByte

\* -------------------------------------------------------------- statistics

\* Counter()
EmptyCounter == [k \in {} |-> 0]

EmptyStats ==
  [ startup_events |-> <<>>, stop_events |-> <<>>,
    message_counts |-> EmptyCounter ]

\* stats["message_counts"][msg] += 1
Increment(counter, msg) ==
  IF msg \in DOMAIN counter
  THEN [counter EXCEPT ![msg] = @ + 1]
  ELSE counter @@ (msg :> 1)

\* The number of places of s at which the text p occurs.
Occurrences(p, s) ==
  Cardinality({ i \in 1..(Len(s) - Len(p) + 1) :
                  \A j \in 1..Len(p) : s[i + j - 1] = p[j] })

\* As CountTerms, but a term counts once for each place it occurs at.
RECURSIVE CountOccurrences(_, _, _)
CountOccurrences(line, i, counter) ==
  IF i > Len(search_list) THEN counter
  ELSE LET msg == search_list[i]
           n == Occurrences(msg, line)
       IN CountOccurrences(line, i + 1,
            IF n = 0 THEN counter
            ELSE IF msg \in DOMAIN counter
            THEN [counter EXCEPT ![msg] = @ + n]
            ELSE counter @@ (msg :> n))

\* for msg in self.search_list: if msg in line: ... += 1
RECURSIVE CountTerms(_, _, _)
CountTerms(line, i, counter) ==
  IF i > Len(search_list) THEN counter
  ELSE CountTerms(line, i + 1,
         IF Contains(search_list[i], line)
         THEN Increment(counter, search_list[i])
         ELSE counter)

Event(line, log_file) ==
  [ timestamp |-> Timestamp(line), file |-> log_file, line |-> Strip(line) ]

\* As ProcessLogLine, with the test for stop_msg made only when the line
\* does not hold startup_msg (elif).
ProcessLogLineElif(line, log_file, stats) ==
  [ startup_events |->
      IF Contains(startup_msg, line)
      THEN Append(stats.startup_events, Event(line, log_file))
      ELSE stats.startup_events,
    stop_events |->
      IF ~Contains(startup_msg, line) /\ Contains(stop_msg, line)
      THEN Append(stats.stop_events, Event(line, log_file))
      ELSE stats.stop_events,
    message_counts |-> CountTerms(line, 1, stats.message_counts) ]

\* _process_log_line
ProcessLogLine(line, log_file, stats) ==
  [ startup_events |->
      IF Contains(startup_msg, line)
      THEN Append(stats.startup_events, Event(line, log_file))
      ELSE stats.startup_events,
    stop_events |->
      IF Contains(stop_msg, line)
      THEN Append(stats.stop_events, Event(line, log_file))
      ELSE stats.stop_events,
    message_counts |-> CountTerms(line, 1, stats.message_counts) ]

\* As ProcessLines, with the last line of the file processed first.
RECURSIVE ProcessLinesLastFirst(_, _, _)
ProcessLinesLastFirst(lines, log_file, stats) ==
  IF lines = <<>> THEN stats
  ELSE ProcessLogLine(Head(lines), log_file,
                      ProcessLinesLastFirst(Tail(lines), log_file, stats))

\* for line in file: self._process_log_line(line, log_file, stats)
RECURSIVE ProcessLines(_, _, _)
ProcessLines(lines, log_file, stats) ==
  IF lines = <<>> THEN stats
  ELSE ProcessLines(Tail(lines), log_file,
                    ProcessLogLine(Head(lines), log_file, stats))

\* bool(stats[...]) of the three members, as any([...]) tests them
AnyEvents(stats) ==
  \/ stats.startup_events # <<>>
  \/ stats.stop_events # <<>>
  \/ DOMAIN stats.message_counts # {}

\* What a scan call hands back: a dict, None, or an exception that leaves it.
Returned(stats) == [ kind |-> "stats", stats |-> stats ]
None == [ kind |-> "None", stats |-> EmptyStats ]
Raised == [ kind |-> "raise", stats |-> EmptyStats ]
\* No scan call has returned in this step.
NoCall == [ kind |-> "none", stats |-> EmptyStats ]

\* As NewStats, but the statistics the last call returned are used again.
LastStats == result.stats

\* stats = {"startup_events": [], "stop_events": [], "message_counts":
\* Counter()}: the dictionary a scan call creates when it starts.
NewStats == EmptyStats

\* --------------------------------------------------------------- the files

\* glob.glob(f"{directory_path}/*.log"): the names in the directory; [] when
\* the directory does not exist.
LogFiles == IF dir_exists THEN present ELSE {}

\* The orders in which glob may list a set of names (it does not sort).
Orders(S) ==
  { o \in [1..Cardinality(S) -> S] : \A f \in S : \E i \in DOMAIN o : o[i] = f }

\* The ways the system calls of one scan call can fail (permission taken
\* away, file gone after glob listed it, I/O error): per file, the call that
\* raises IOError, if any. parse_logs does not call os.stat.
NoFaults == [f \in Files |-> "none"]
FaultsOf(S, calls) ==
  { fl \in [Files -> {"none"} \cup calls] : \A f \in Files \ S : fl[f] = "none" }

FileSize(f) == Len(content[f])

\* ------------------------------------------------------------ parse_logs

\* _process_log_file: the statistics after the file, or that the read raised
\* something other than IOError (which leaves parse_logs). fault is the call
\* that raises IOError for this file.
ProcessLogFile(log_file, stats, fault) ==
  IF fault = "open"
  THEN [ raised |-> FALSE, stats |-> stats ]
  ELSE IF DecodeFails(content[log_file])
  THEN [ raised |-> TRUE, stats |-> stats ]
  ELSE [ raised |-> FALSE,
         stats |-> ProcessLines(SplitLines(content[log_file]), log_file, stats) ]

RECURSIVE FullLoop(_, _, _, _)
FullLoop(log_files, i, stats, fl) ==
  IF i > Len(log_files) THEN Returned(stats)
  ELSE LET r == ProcessLogFile(log_files[i], stats, fl[log_files[i]])
       IN IF r.raised THEN Raised ELSE FullLoop(log_files, i + 1, r.stats, fl)

\* As ParseLogs, without the `if not log_files` test.
ParseLogsWithoutTest(log_files, fl) == FullLoop(log_files, 1, NewStats, fl)

\* parse_logs, with glob listing the files in the order log_files. It does
\* not touch self.file_positions.
ParseLogs(log_files, fl) ==
  IF log_files = <<>> THEN None ELSE FullLoop(log_files, 1, NewStats, fl)

\* --------------------------------------------------- parse_new_logs_only

\* self.file_positions.get(log_file, 0)
PositionFor(positions, log_file) ==
  IF log_file \in DOMAIN positions THEN positions[log_file] ELSE 0

\* self.file_positions[log_file] = offset
SetPosition(positions, log_file, offset) ==
  [ f \in DOMAIN positions \cup {log_file} |->
      IF f = log_file THEN offset ELSE positions[f] ]

\* As Tell, but the offset is the one the read started at.
TellUnmoved(last_position, file_size) == last_position

\* file.tell() once the file opened at last_position was read to its end
Tell(last_position, file_size) == file_size

\* As Grown, but a file of unchanged size counts too.
SizeAtLeast(file_size, last_position) == file_size >= last_position

\* As Grown, but any change of size counts.
SizeDiffers(file_size, last_position) == file_size # last_position

\* `if file_size > last_position:` ("Only process if file has grown")
Grown(file_size, last_position) == file_size > last_position

\* The body of the loop over the files, for one file. acc is the state of the
\* call: positions, stats, new_entries_found, and whether an exception that
\* is not an IOError has left the loop.
ScanNewFile(log_file, acc, fault) ==
  IF fault = "stat" THEN acc
  ELSE LET file_size == FileSize(log_file)
           last_position == PositionFor(acc.positions, log_file)
           chunk == SubSeq(content[log_file], last_position + 1, file_size)
       IN IF ~Grown(file_size, last_position) THEN acc
          ELSE IF fault = "open"
          THEN [acc EXCEPT !.found = TRUE]
          ELSE IF DecodeFails(chunk)
          THEN [acc EXCEPT !.found = TRUE, !.raised = TRUE]
          ELSE [ positions |->
                   SetPosition(acc.positions, log_file,
                               Tell(last_position, file_size)),
                 stats |-> ProcessLines(SplitLines(chunk), log_file, acc.stats),
                 found |-> TRUE,
                 raised |-> FALSE ]

RECURSIVE NewLoop(_, _, _, _)
NewLoop(log_files, i, acc, fl) ==
  IF i > Len(log_files) \/ acc.raised THEN acc
  ELSE NewLoop(log_files, i + 1,
               ScanNewFile(log_files[i], acc, fl[log_files[i]]), fl)

\* return stats if new_entries_found else None
NewResult(acc) ==
  IF acc.raised THEN Raised
  ELSE IF acc.found THEN Returned(acc.stats) ELSE None

\* As ParseNewLogsOnly, but the positions of files that glob no longer lists
\* are dropped from the map.
ParseNewLogsOnlyPruning(positions, log_files, fl) ==
  LET listed == { log_files[i] : i \in 1..Len(log_files) }
      acc == NewLoop(log_files, 1,
                     [ positions |-> [f \in DOMAIN positions \cap listed |->
                                        positions[f]],
                       stats |-> NewStats, found |-> FALSE,
                       raised |-> FALSE ], fl)
  IN [ positions |-> acc.positions,
       result |-> IF log_files = <<>> THEN None ELSE NewResult(acc) ]

\* parse_new_logs_only, with glob listing the files in the order log_files:
\* the positions it leaves and what it returns.
ParseNewLogsOnly(positions, log_files, fl) ==
  IF log_files = <<>>
  THEN [ positions |-> positions, result |-> None ]
  ELSE LET acc == NewLoop(log_files, 1,
                          [ positions |-> positions, stats |-> NewStats,
                            found |-> FALSE, raised |-> FALSE ], fl)
       IN [ positions |-> acc.positions, result |-> NewResult(acc) ]

\* ---------------------------------------------------------- file handles

\* As WithOpen, for `file = open(...)`, the reads, then `file.close()`: an
\* exception in the reads skips the close.
OpenThenClose(log_file, failed) == IF failed THEN {log_file} ELSE {}

\* `with open(log_file, 'r') as file:`: the handles that are open once the
\* block is left, at its end or, with failed, by an exception raised in it.
WithOpen(log_file, failed) == {}

\* The handles a full scan that lists log_files leaves open: every file is
\* opened in turn until an exception leaves the loop.
HandlesAfterFull(log_files, fl) ==
  UNION { LET log_file == log_files[i]
              before == FullLoop(SubSeq(log_files, 1, i - 1), 1, NewStats, fl)
          IN IF before.kind = "raise" \/ fl[log_file] = "open" THEN {}
             ELSE WithOpen(log_file,
                           ProcessLogFile(log_file, NewStats,
                                          fl[log_file]).raised) :
          i \in 1..Len(log_files) }

\* The handles an incremental scan that lists log_files leaves open: every
\* file that has grown is opened in turn until an exception leaves the loop.
HandlesAfterNew(positions, log_files, fl) ==
  UNION { LET log_file == log_files[i]
              before == NewLoop(SubSeq(log_files, 1, i - 1), 1,
                                [ positions |-> positions, stats |-> NewStats,
                                  found |-> FALSE, raised |-> FALSE ], fl)
          IN IF \/ before.raised
                \/ fl[log_file] # "none"
                \/ ~Grown(FileSize(log_file),
                          PositionFor(before.positions, log_file))
             THEN {}
             ELSE WithOpen(log_file,
                           ScanNewFile(log_file, before, fl[log_file]).raised) :
          i \in 1..Len(log_files) }

\* ------------------------------------------------- generate_ai_summary

\* bool(x) of what a scan call returned: a dict with its three keys is true,
\* None is false.
Truthy(data) == data.kind = "stats"

NoSummary ==
  [ called |-> FALSE, forwarded |-> EmptyStats, answered |-> FALSE,
    raised |-> FALSE ]

\* As GenerateAiSummary, without the try block around ollama.generate.
GenerateAiSummaryUncaught(data, answers) ==
  IF ~Truthy(data) THEN NoSummary
  ELSE [ called |-> TRUE, forwarded |-> data.stats, answered |-> answers,
         raised |-> ~answers ]

\* generate_ai_summary(stats): whether ollama.generate is called, with which
\* statistics in the prompt (_build_prompt only reads them), whether it
\* answered, and whether an exception leaves generate_ai_summary: an
\* exception of the call is caught (`except Exception`) and printed.
GenerateAiSummary(data, answers) ==
  IF ~Truthy(data) THEN NoSummary
  ELSE [ called |-> TRUE, forwarded |-> data.stats, answered |-> answers,
         raised |-> FALSE ]

\* ------------------------------------------------------------------- Init

\* A thread that is not inside parse_new_logs_only. ranges: the byte ranges
\* <<file, from, to>> (from exclusive) its last call read and counted.
NotCalling(ranges) ==
  [ pc |-> "idle", todo |-> <<>>, last_position |-> 0, stats |-> EmptyStats,
    found |-> FALSE, ranges |-> ranges ]

\* No workflow step was taken in this step.
NoTick == [ phase |-> "none", scan |-> NoCall, summary |-> NoSummary ]

NoChange == [ scan |-> "none", appended |-> <<>>, other |-> FALSE,
              again |-> FALSE ]

Init ==
  /\ dir_exists = TRUE
  /\ present = {}
  /\ content = [f \in Files |-> <<>>]
  /\ file_positions = [f \in {} |-> 0]
  /\ result = NoCall
  /\ faults = NoFaults
  /\ since = NoChange
  /\ pc = "Idle"
  /\ exit = "none"
  /\ full_scans = 0
  /\ tick = NoTick
  /\ callers = [t \in Callers |-> NotCalling({})]
  /\ handles = {}
  /\ loop_new_data = NoCall
  /\ reported = EmptyStats

\* A directory found with logs in it: a.log starts with a line of TokenLines;
\* a second line, if any, follows it or is in b.log; with a second line in
\* b.log, a.log may end with one more line.
ContentWith(line, extra, f, last) ==
  LET first == [g \in Files |->
                  IF g = "a.log" THEN line \o <<"\n">> ELSE <<>>]
  IN IF extra = <<>> THEN first
     ELSE IF f = "b.log" /\ last # <<>>
     THEN [first EXCEPT !["a.log"] = @ \o last \o <<"\n">>,
                        !["b.log"] = extra \o <<"\n">>]
     ELSE [first EXCEPT ![f] = @ \o extra \o <<"\n">>]

InitLines ==
  /\ dir_exists = TRUE
  /\ content \in { ContentWith(line, extra, f, last) :
                     line \in TokenLines, extra \in LineSet \cup {<<>>},
                     f \in Files, last \in {<<>>, startup_msg} }
  /\ present = { f \in Files : content[f] # <<>> }
  /\ file_positions = [f \in {} |-> 0]
  /\ result = NoCall
  /\ faults = NoFaults
  /\ since = NoChange
  /\ pc = "Idle"
  /\ exit = "none"
  /\ full_scans = 0
  /\ tick = NoTick
  /\ callers = [t \in Callers |-> NotCalling({})]
  /\ handles = {}
  /\ loop_new_data = NoCall
  /\ reported = EmptyStats

\* ------------------------------------------------ the writers of the logs

RECURSIVE CountNewlines(_)
CountNewlines(s) ==
  IF s = <<>> THEN 0
  ELSE (IF Head(s) = "\n" THEN 1 ELSE 0) + CountNewlines(Tail(s))

RECURSIVE TotalLines(_)
TotalLines(S) ==
  IF S = {} THEN 0
  ELSE LET f == CHOOSE g \in S : TRUE
       IN CountNewlines(content[f]) + TotalLines(S \ {f})

\* What a step of the writers leaves alone, and what it records.
EnvFrame ==
  /\ result' = NoCall
  /\ faults' = NoFaults
  /\ tick' = NoTick
  /\ UNCHANGED << file_positions, pc, exit, full_scans, callers, handles,
                  loop_new_data >>

\* A writer appends one whole line to a file, creating the file if needed.
AppendLine(f, line) ==
  /\ dir_exists
  /\ TotalLines(Files) < MaxTotalLines
  /\ content' = [content EXCEPT ![f] = @ \o line \o <<"\n">>]
  /\ present' = present \cup {f}
  /\ UNCHANGED dir_exists
  /\ EnvFrame

\* The bytes a writer that writes a line in several writes may write.
Bytes == {"u", "p", "\n"}

\* A writer writes some bytes at the end of a file, creating the file if
\* needed: a line, its newline included, may take several writes.
WriteBytes(f, bytes) ==
  /\ dir_exists
  /\ FileSize("a.log") + FileSize("b.log") + Len(bytes) <= MaxBytes
  /\ content' = [content EXCEPT ![f] = @ \o bytes]
  /\ present' = present \cup {f}
  /\ UNCHANGED dir_exists
  /\ EnvFrame

\* The file is emptied in place (rotation by truncation).
Truncate(f) ==
  /\ f \in present
  /\ content[f] # <<>>
  /\ content' = [content EXCEPT ![f] = <<>>]
  /\ UNCHANGED << dir_exists, present >>
  /\ EnvFrame

\* The name is removed from the directory.
Delete(f) ==
  /\ f \in present
  /\ present' = present \ {f}
  /\ content' = [content EXCEPT ![f] = <<>>]
  /\ UNCHANGED dir_exists
  /\ EnvFrame

\* The directory is removed with everything in it.
RemoveDir ==
  /\ dir_exists
  /\ dir_exists' = FALSE
  /\ present' = {}
  /\ content' = [f \in Files |-> <<>>]
  /\ EnvFrame

MakeDir ==
  /\ ~dir_exists
  /\ dir_exists' = TRUE
  /\ UNCHANGED << present, content >>
  /\ EnvFrame

\* ------------------------------------------------- calls of the scanner

\* A caller calls parse_logs().
CallParseLogs ==
  /\ pc = "Idle"
  /\ \E log_files \in Orders(LogFiles), fl \in FaultsOf(LogFiles, {"open"}) :
       /\ result' = ParseLogs(log_files, fl)
       /\ handles' = handles \cup HandlesAfterFull(log_files, fl)
       /\ faults' = fl
  /\ UNCHANGED << loop_new_data, callers, dir_exists, present, content, file_positions,
                  pc, exit, full_scans, tick >>

\* A caller calls parse_new_logs_only().
CallParseNewLogsOnly ==
  /\ pc = "Idle"
  /\ \E log_files \in Orders(LogFiles),
        fl \in FaultsOf(LogFiles, {"stat", "open"}) :
       LET r == ParseNewLogsOnly(file_positions, log_files, fl)
       IN /\ file_positions' = r.positions
          /\ result' = r.result
          /\ handles' =
               handles \cup HandlesAfterNew(file_positions, log_files, fl)
          /\ faults' = fl
  /\ UNCHANGED << loop_new_data, callers, dir_exists, present, content, pc, exit, full_scans, tick >>

\* ------------------------------------------------------- run_analysis

\* As AnalysisSummaryDue, but the flag of the caller is not looked at.
AnalysisSummaryIfData(log_data, generate_summary) == Truthy(log_data)

\* `if log_data and generate_summary:`
AnalysisSummaryDue(log_data, generate_summary) ==
  Truthy(log_data) /\ generate_summary

\* A caller calls run_analysis(generate_summary): the full scan, the summary
\* of what it returned if asked for, and the return of the scan's result.
RunAnalysisWith(generate_summary) ==
  /\ pc = "Idle"
  /\ \E log_files \in Orders(LogFiles), fl \in FaultsOf(LogFiles, {"open"}),
        answers \in BOOLEAN :
       LET log_data == ParseLogs(log_files, fl)
           summary == IF /\ log_data.kind # "raise"
                         /\ AnalysisSummaryDue(log_data, generate_summary)
                      THEN GenerateAiSummary(log_data, answers)
                      ELSE NoSummary
       IN /\ tick' = [ phase |-> IF generate_summary THEN "analysis"
                                 ELSE "analysis_only",
                       scan |-> log_data,
                       summary |-> summary ]
          /\ result' = IF summary.raised THEN Raised ELSE log_data
          /\ handles' = handles \cup HandlesAfterFull(log_files, fl)
          /\ faults' = fl
  /\ UNCHANGED << loop_new_data, callers, dir_exists, present, content, file_positions, pc, exit,
                  full_scans >>

RunAnalysis == \E generate_summary \in BOOLEAN : RunAnalysisWith(generate_summary)

\* ------------------------------------------- run_continuous_monitoring

\* As InitialSummaryDue, but with the test the loop makes.
InitialSummaryIfEvents(initial_data) ==
  Truthy(initial_data) /\ AnyEvents(initial_data.stats)

\* `if initial_data:` before the loop
InitialSummaryDue(initial_data) == Truthy(initial_data)

\* As NewSummaryDue, but with the test made before the loop.
NewSummaryIfData(new_data) == Truthy(new_data)

\* `if new_data and any([...]):` in the loop
NewSummaryDue(new_data) == Truthy(new_data) /\ AnyEvents(new_data.stats)

\* run_continuous_monitoring is called: the initial scan, outside the try
\* block, and the summary of what it returned.
MonitorStart ==
  /\ pc = "Idle"
  /\ \E log_files \in Orders(LogFiles), fl \in FaultsOf(LogFiles, {"open"}),
        answers \in BOOLEAN :
       LET initial_data == ParseLogs(log_files, fl)
           summary == IF initial_data.kind # "raise"
                         /\ InitialSummaryDue(initial_data)
                      THEN GenerateAiSummary(initial_data, answers)
                      ELSE NoSummary
       IN /\ tick' = [ phase |-> "start", scan |-> initial_data,
                       summary |-> summary ]
          /\ pc' = IF initial_data.kind = "raise" \/ summary.raised
                   THEN "Stopped" ELSE "Polling"
          /\ exit' = IF initial_data.kind = "raise" \/ summary.raised
                     THEN "uncaught" ELSE "none"
          /\ handles' = handles \cup HandlesAfterFull(log_files, fl)
  /\ full_scans' = full_scans + 1
  /\ result' = NoCall
  /\ faults' = NoFaults
  /\ UNCHANGED << loop_new_data, callers, dir_exists, present, content, file_positions >>

\* One iteration of the while loop: the incremental scan, the summary of
\* new events, the sleep. An exception of the scan ends the loop
\* (`except Exception`).
MonitorTick ==
  /\ pc = "Polling"
  /\ \E log_files \in Orders(LogFiles),
        fl \in FaultsOf(LogFiles, {"stat", "open"}), answers \in BOOLEAN :
       LET r == ParseNewLogsOnly(file_positions, log_files, fl)
           new_data == r.result
           summary == IF new_data.kind # "raise" /\ NewSummaryDue(new_data)
                      THEN GenerateAiSummary(new_data, answers)
                      ELSE NoSummary
       IN /\ file_positions' = r.positions
          /\ tick' = [ phase |-> "poll", scan |-> new_data,
                       summary |-> summary ]
          /\ pc' = IF new_data.kind = "raise" \/ summary.raised
                   THEN "Stopped" ELSE "Polling"
          /\ exit' = IF new_data.kind = "raise" \/ summary.raised
                     THEN "error" ELSE "none"
          /\ handles' =
               handles \cup HandlesAfterNew(file_positions, log_files, fl)
  /\ UNCHANGED << loop_new_data, callers, dir_exists, present, content, result, faults, full_scans >>

\* Ctrl+C while parse_new_logs_only reads the k-th listed file, after its new
\* lines were processed and before line 108 records the position: the
\* KeyboardInterrupt leaves the `with` block and the scan and is caught by
\* `except KeyboardInterrupt`. The statistics of the scan are lost.
InterruptedScan ==
  /\ pc = "Polling"
  /\ \E log_files \in Orders(LogFiles),
        fl \in FaultsOf(LogFiles, {"stat", "open"}),
        k \in 1..Cardinality(LogFiles) :
       LET log_file == log_files[k]
           acc == NewLoop(SubSeq(log_files, 1, k - 1), 1,
                          [ positions |-> file_positions, stats |-> NewStats,
                            found |-> FALSE, raised |-> FALSE ], fl)
           read == ScanNewFile(log_file, acc, fl[log_file])
       IN /\ ~acc.raised /\ ~read.raised
          /\ fl[log_file] = "none"
          /\ Grown(FileSize(log_file), PositionFor(acc.positions, log_file))
          /\ file_positions' = acc.positions
          /\ handles' =
               handles
                 \cup HandlesAfterNew(file_positions,
                                      SubSeq(log_files, 1, k - 1), fl)
                 \cup WithOpen(log_file, TRUE)
          /\ tick' = [ phase |-> "poll",
                       scan |-> [ kind |-> "interrupted", stats |-> read.stats ],
                       summary |-> NoSummary ]
  /\ pc' = "Stopped"
  /\ exit' = "interrupt"
  /\ UNCHANGED << loop_new_data, callers, dir_exists, present, content, result, faults, full_scans >>

\* Ctrl+C while ollama.generate runs for the new events of an iteration:
\* KeyboardInterrupt is not an Exception, so generate_ai_summary does not
\* catch it and the loop's `except KeyboardInterrupt` does.
InterruptedSummary ==
  /\ pc = "Polling"
  /\ \E log_files \in Orders(LogFiles),
        fl \in FaultsOf(LogFiles, {"stat", "open"}) :
       LET r == ParseNewLogsOnly(file_positions, log_files, fl)
           new_data == r.result
       IN /\ new_data.kind # "raise"
          /\ NewSummaryDue(new_data)
          /\ file_positions' = r.positions
          /\ handles' =
               handles \cup HandlesAfterNew(file_positions, log_files, fl)
          /\ tick' = [ phase |-> "poll", scan |-> new_data,
                       summary |-> [ called |-> TRUE,
                                     forwarded |-> new_data.stats,
                                     answered |-> FALSE, raised |-> TRUE ] ]
  /\ pc' = "Stopped"
  /\ exit' = "interrupt"
  /\ UNCHANGED << loop_new_data, callers, dir_exists, present, content, result, faults, full_scans >>

\* Ctrl+C while the loop sleeps (`except KeyboardInterrupt`).
Interrupt ==
  /\ pc = "Polling"
  /\ pc' = "Stopped"
  /\ exit' = "interrupt"
  /\ tick' = NoTick
  /\ UNCHANGED << handles, loop_new_data, callers, dir_exists, present, content, file_positions, result,
                  faults, full_scans >>

\* ------------------------ the while loop, statement by statement

\* As AfterSummary, with the sleep in the else branch of the test only.
AfterSummaryWithoutSleep == "Polling"

\* Where the loop is once generate_ai_summary(new_data) has returned: at
\* time.sleep(self.monitor_interval), which follows the if/else.
AfterSummary == "Sleeping"

\* new_data = self.parse_new_logs_only() and the test of new_data, at the
\* head of an iteration. An exception of the scan ends the loop.
TickScan ==
  /\ pc = "Polling"
  /\ \E log_files \in Orders(LogFiles),
        fl \in FaultsOf(LogFiles, {"stat", "open"}) :
       LET r == ParseNewLogsOnly(file_positions, log_files, fl)
       IN /\ file_positions' = r.positions
          /\ loop_new_data' = r.result
          /\ handles' =
               handles \cup HandlesAfterNew(file_positions, log_files, fl)
          /\ tick' = [ phase |-> "poll", scan |-> r.result,
                       summary |-> NoSummary ]
          /\ pc' = IF r.result.kind = "raise" THEN "Stopped"
                   ELSE IF NewSummaryDue(r.result) THEN "Summarizing"
                   ELSE "Sleeping"
          /\ exit' = IF r.result.kind = "raise" THEN "error" ELSE "none"
  /\ UNCHANGED << callers, dir_exists, present, content, result, faults,
                  full_scans, since, reported >>

\* self.generate_ai_summary(new_data), from its call to its return.
TickSummary ==
  /\ pc = "Summarizing"
  /\ \E answers \in BOOLEAN :
       LET summary == GenerateAiSummary(loop_new_data, answers)
       IN /\ tick' = [ phase |-> "poll", scan |-> loop_new_data,
                       summary |-> summary ]
          /\ pc' = IF summary.raised THEN "Stopped" ELSE AfterSummary
          /\ exit' = IF summary.raised THEN "error" ELSE "none"
  /\ UNCHANGED << callers, dir_exists, present, content, file_positions,
                  result, faults, full_scans, since, reported, handles,
                  loop_new_data >>

\* time.sleep(self.monitor_interval) returns and the next iteration begins;
\* new_data is not read again before the next scan assigns it.
TickSleep ==
  /\ pc = "Sleeping"
  /\ pc' = "Polling"
  /\ loop_new_data' = NoCall
  /\ tick' = NoTick
  /\ UNCHANGED << callers, dir_exists, present, content, file_positions,
                  result, faults, full_scans, since, reported, handles, exit >>

\* Ctrl+C between two statements of the loop or in the sleep.
TickInterrupt ==
  /\ pc \in {"Polling", "Summarizing", "Sleeping"}
  /\ pc' = "Stopped"
  /\ exit' = "interrupt"
  /\ tick' = NoTick
  /\ UNCHANGED << callers, dir_exists, present, content, file_positions,
                  result, faults, full_scans, since, reported, handles,
                  loop_new_data >>

\* ------------------------- parse_new_logs_only, called by several threads

\* What a step of a thread inside parse_new_logs_only leaves alone. The
\* method takes no lock; a thread switch can fall between any two of its
\* statements, here: between the steps below.
ThreadFrame ==
  UNCHANGED << dir_exists, present, content, faults, since, pc, exit,
               full_scans, tick, loop_new_data, reported >>

\* Thread t calls parse_new_logs_only: the new stats and glob (lines 73-84).
ThreadCall(t) ==
  /\ pc = "Idle"
  /\ callers[t].pc = "idle"
  /\ \E log_files \in Orders(LogFiles) :
       callers' = [callers EXCEPT ![t] =
                     [ pc |-> "loop", todo |-> log_files, last_position |-> 0,
                       stats |-> NewStats, found |-> FALSE, ranges |-> {} ]]
  /\ UNCHANGED << file_positions, result, handles >>
  /\ ThreadFrame

\* Thread t, at the next file of its loop: os.stat, file_positions.get and
\* the comparison (lines 89-97).
ThreadStat(t) ==
  /\ callers[t].pc = "loop"
  /\ callers[t].todo # <<>>
  /\ LET log_file == Head(callers[t].todo)
         last_position == PositionFor(file_positions, log_file)
     IN callers' = [callers EXCEPT ![t] =
          IF Grown(FileSize(log_file), last_position)
          THEN [@ EXCEPT !.pc = "read", !.last_position = last_position,
                         !.found = TRUE]
          ELSE [@ EXCEPT !.todo = Tail(@)]]
  /\ UNCHANGED << file_positions, result, handles >>
  /\ ThreadFrame

\* Thread t reads the file from the position it fetched to the end and
\* records file.tell() (lines 99-108). A UnicodeDecodeError ends its call.
ThreadRead(t) ==
  /\ callers[t].pc = "read"
  /\ LET log_file == Head(callers[t].todo)
         last_position == callers[t].last_position
         file_size == FileSize(log_file)
         chunk == SubSeq(content[log_file], last_position + 1, file_size)
     IN /\ handles' = handles \cup WithOpen(log_file, DecodeFails(chunk))
        /\ IF DecodeFails(chunk)
           THEN /\ callers' = [callers EXCEPT ![t] = NotCalling(@.ranges)]
                /\ result' = Raised
                /\ UNCHANGED file_positions
           ELSE /\ callers' = [callers EXCEPT ![t] =
                     [@ EXCEPT !.pc = "loop", !.todo = Tail(@),
                               !.stats = ProcessLines(SplitLines(chunk),
                                                      log_file, @),
                               !.ranges = @ \cup
                                  { << log_file, last_position, file_size >> }]]
                /\ file_positions' =
                     SetPosition(file_positions, log_file,
                                 Tell(last_position, file_size))
                /\ UNCHANGED result
  /\ ThreadFrame

\* Thread t returns from parse_new_logs_only (line 112).
ThreadReturn(t) ==
  /\ callers[t].pc = "loop"
  /\ callers[t].todo = <<>>
  /\ result' = IF callers[t].found THEN Returned(callers[t].stats) ELSE None
  /\ callers' = [callers EXCEPT ![t] = NotCalling(@.ranges)]
  /\ UNCHANGED << file_positions, handles >>
  /\ ThreadFrame

\* ------------------------------------------------------ specifications

\* The record of what happened to the files since the last scan call.
NoteAppend(f, line) ==
  /\ since' =
       IF since.other \/ since.appended # <<>>
       THEN [since EXCEPT !.appended = <<>>, !.other = TRUE, !.again = FALSE]
       ELSE [since EXCEPT !.appended = << [file |-> f, line |-> line] >>,
                          !.again = FALSE]
  /\ UNCHANGED reported

NoteChange ==
  /\ since' = [since EXCEPT !.appended = <<>>, !.other = TRUE, !.again = FALSE]
  /\ UNCHANGED reported

SinceScan(op) ==
  since' = [ scan |-> op, appended |-> <<>>, other |-> FALSE,
             again |-> /\ op = "parse_new_logs_only"
                       /\ since.scan = "parse_new_logs_only"
                       /\ since.appended = <<>>
                       /\ ~since.other ]

NoteScan(op) == SinceScan(op) /\ UNCHANGED reported

\* The scanner used through its two scan methods, while writers write.
Next ==
  \/ \E f \in Files, line \in LineSet : AppendLine(f, line) /\ NoteAppend(f, line)
  \/ \E f \in Files : Truncate(f) /\ NoteChange
  \/ \E f \in Files : Delete(f) /\ NoteChange
  \/ RemoveDir /\ NoteChange
  \/ MakeDir /\ NoteChange
  \/ CallParseLogs /\ NoteScan("parse_logs")
  \/ CallParseNewLogsOnly /\ NoteScan("parse_new_logs_only")

Spec == Init /\ [][Next]_vars

\* The scanner used through run_analysis and run_continuous_monitoring, while
\* writers write.
NextMonitor ==
  \/ \E f \in Files, line \in LineSet : AppendLine(f, line) /\ UNCHANGED << since, reported >>
  \/ \E f \in Files : Truncate(f) /\ UNCHANGED << since, reported >>
  \/ \E f \in Files : Delete(f) /\ UNCHANGED << since, reported >>
  \/ RemoveDir /\ UNCHANGED << since, reported >>
  \/ MakeDir /\ UNCHANGED << since, reported >>
  \/ RunAnalysis /\ UNCHANGED << since, reported >>
  \/ MonitorStart /\ UNCHANGED << since, reported >>
  \/ MonitorTick /\ UNCHANGED << since, reported >>
  \/ InterruptedScan /\ UNCHANGED << since, reported >>
  \/ InterruptedSummary /\ UNCHANGED << since, reported >>
  \/ Interrupt /\ UNCHANGED << since, reported >>

SpecMonitor == Init /\ [][NextMonitor]_vars

\* The two scan methods applied to logs that are already written, with no
\* system call failing.
NextLines ==
  \/ faults' = NoFaults /\ CallParseLogs /\ NoteScan("parse_logs")
  \/ faults' = NoFaults /\ CallParseNewLogsOnly
       /\ NoteScan("parse_new_logs_only")

SpecLines == InitLines /\ [][NextLines]_vars

\* Incremental scans while writers write the lines byte by byte, with no
\* system call failing.
NextPartial ==
  \/ \E f \in Files, b \in Bytes : WriteBytes(f, <<b>>) /\ UNCHANGED << since, reported >>
  \/ faults' = NoFaults /\ CallParseNewLogsOnly
       /\ NoteScan("parse_new_logs_only")

SpecPartial == Init /\ [][NextPartial]_vars

\* Counter a + Counter b
AddCounters(a, b) ==
  [ msg \in DOMAIN a \cup DOMAIN b |->
      (IF msg \in DOMAIN a THEN a[msg] ELSE 0)
        + (IF msg \in DOMAIN b THEN b[msg] ELSE 0) ]

\* What a caller that puts together the statistics its incremental scans
\* return has after one more scan has returned data.
PutTogether(total, data) ==
  IF data.kind # "stats" THEN total
  ELSE [ startup_events |-> total.startup_events \o data.stats.startup_events,
         stop_events |-> total.stop_events \o data.stats.stop_events,
         message_counts |->
           AddCounters(total.message_counts, data.stats.message_counts) ]

\* A fresh scanner used through parse_new_logs_only only, on files that
\* writers append whole lines of decodable text to, with no system call
\* failing; the caller puts together what the scans return.
NextAppend ==
  \/ \E f \in Files, line \in { l \in LineSet : ~DecodeFails(l) } :
       AppendLine(f, line) /\ NoteAppend(f, line)
  \/ /\ faults' = NoFaults
     /\ CallParseNewLogsOnly
     /\ SinceScan("parse_new_logs_only")
     /\ reported' = PutTogether(reported, result')

SpecAppend == Init /\ [][NextAppend]_vars

\* The thread in the loop leaves the statement it is at: the steps TickScan,
\* TickSummary, TickSleep and TickInterrupt, which are the steps that change
\* pc in the loop.
LoopAdvances ==
  /\ pc \in {"Polling", "Summarizing", "Sleeping"}
  /\ pc' \in {"Polling", "Summarizing", "Sleeping", "Stopped"}
  /\ pc' # pc

\* run_continuous_monitoring with its loop taken statement by statement,
\* while writers append. The thread is not held at a statement forever: the
\* scan reads finitely many bytes, the call of the summarizer returns or
\* raises, and the sleep ends after monitor_interval seconds.
NextTicks ==
  \/ \E f \in Files, line \in LineSet :
       AppendLine(f, line) /\ UNCHANGED << since, reported >>
  \/ MonitorStart /\ UNCHANGED << since, reported >>
  \/ TickScan
  \/ TickSummary
  \/ TickSleep
  \/ TickInterrupt

SpecTicks ==
  /\ Init
  /\ [][NextTicks]_vars
  /\ WF_pc(LoopAdvances)

\* The scanner shared by threads that call parse_new_logs_only, while
\* writers append.
NextThreads ==
  \/ \E f \in Files, line \in LineSet : AppendLine(f, line) /\ UNCHANGED << since, reported >>
  \/ \E t \in Callers : ThreadCall(t)
  \/ \E t \in Callers : ThreadStat(t)
  \/ \E t \in Callers : ThreadRead(t)
  \/ \E t \in Callers : ThreadReturn(t)

SpecThreads == Init /\ [][NextThreads]_vars

\* ================================================================ claims

Position(f) == PositionFor(file_positions, f)

\* The step is a call of parse_new_logs_only by a caller (under Spec).
IncStep == result'.kind # "none" /\ since'.scan = "parse_new_logs_only"

\* The bytes of f the incremental scan of this step has to read, and whether
\* reading f fails in this step.
Pending(f) == SubSeq(content[f], Position(f) + 1, FileSize(f))
ReadFails(f) == faults'[f] # "none" \/ DecodeFails(Pending(f))

\* No file of the directory holds an octet that cannot be decoded.
AllDecodable == \A f \in Files : ~DecodeFails(content[f])

\* C1: after parse_logs has returned statistics (at least one file was
\* listed; here: every file was read), the recorded position of every listed
\* file is the file's size.
C1_FullScanRecordsEndOfFile ==
  (result.kind = "stats" /\ since.scan = "parse_logs" /\ faults = NoFaults)
    => \A f \in LogFiles : Position(f) = FileSize(f)

\* C2: when parse_logs has run, then exactly one line with the search term W
\* is appended to a file, and nothing fails, the next parse_new_logs_only
\* returns statistics with W counted once and nothing else.
OnlyW ==
  [ startup_events |-> <<>>, stop_events |-> <<>>,
    message_counts |-> (<<"W">> :> 1) ]

C2_IncrementalAfterFullReportsOnlyNewLine ==
  [][ ( /\ IncStep
        /\ since.scan = "parse_logs"
        /\ ~since.other
        /\ Len(since.appended) = 1
        /\ since.appended[1].line = <<"W", "!">>
        /\ AllDecodable
        /\ faults' = NoFaults )
      => result' = Returned(OnlyW) ]_vars

\* C3: a file that is smaller than its recorded position when
\* parse_new_logs_only runs (and can be read) is read from its start: its
\* position is its size afterwards, and if it is the only file and not
\* empty, the call returns the statistics of its whole content.
C3_TruncatedFileIsReadFromStart ==
  [][ IncStep =>
        \A f \in LogFiles :
          ( /\ FileSize(f) < Position(f)
            /\ faults'[f] = "none"
            /\ AllDecodable )
          => /\ PositionFor(file_positions', f) = FileSize(f)
             /\ (LogFiles = {f} /\ FileSize(f) > 0)
                  => result' = Returned(ProcessLines(SplitLines(content[f]),
                                                     f, EmptyStats)) ]_vars

\* C4: a parse_new_logs_only that directly follows a parse_new_logs_only,
\* with no change of the files and the same files failing, both calls
\* returning, returns None and changes no position.
C4_SecondIncrementalScanFindsNothing ==
  [][ ( /\ since'.again
        /\ result.kind # "raise" /\ result'.kind # "raise"
        /\ faults' = faults )
      => (result'.kind = "None" /\ file_positions' = file_positions) ]_vars

\* C5: a parse_new_logs_only that returns returns None exactly when it read
\* new bytes of no file; a file that grew but could not be opened does not
\* count.
BytesRead(f) ==
  f \in LogFiles /\ faults'[f] = "none" /\ FileSize(f) > Position(f)

C5_NoneIffNoNewBytes ==
  [][ (IncStep /\ AllDecodable)
      => (result'.kind = "None" <=> ~ \E f \in Files : BytesRead(f)) ]_vars

\* C6: when reading a file fails during an incremental scan, the scan leaves
\* the position of the failing file as it was and still reads every other
\* file that has new bytes to its end.
C6_ReadFailureIsIsolated ==
  [][ IncStep =>
        \A f \in LogFiles :
          IF ReadFails(f)
          THEN PositionFor(file_positions', f) = Position(f)
          ELSE FileSize(f) > Position(f)
                 => PositionFor(file_positions', f) = FileSize(f) ]_vars

\* C7: the recorded position of a file never decreases, except to 0 in a
\* step in which the file is smaller than its recorded position.
C7_PositionsNeverDecrease ==
  [][ \A f \in Files :
        \/ PositionFor(file_positions', f) >= Position(f)
        \/ /\ FileSize(f) < Position(f)
           /\ PositionFor(file_positions', f) = 0 ]_vars

\* A scan has just run over a file that is smaller than its position, after
\* positions were recorded for it: the position is still there.
C7_Witness ==
  /\ result.kind = "None"
  /\ since.scan = "parse_new_logs_only"
  /\ \E f \in LogFiles : 0 < FileSize(f) /\ FileSize(f) < Position(f)

\* Whether statistics hold anything: an event, or a term counted.
HasMatch(stats) ==
  \/ Len(stats.startup_events) > 0
  \/ Len(stats.stop_events) > 0
  \/ \E i \in DOMAIN search_list :
       /\ search_list[i] \in DOMAIN stats.message_counts
       /\ stats.message_counts[search_list[i]] >= 1

\* C8 as claimed: in an iteration of the loop the summarizer is called
\* exactly when parse_new_logs_only returned statistics.
C8_SummaryIffStatistics ==
  tick.phase = "poll"
    => (tick.summary.called <=> tick.scan.kind = "stats")

\* C8, amended: in an iteration of the loop the summarizer is called exactly
\* when parse_new_logs_only returned statistics that hold an event or a
\* counted term, and it is given those statistics.
C8_SummaryIffNewEvents ==
  tick.phase = "poll"
    => /\ tick.summary.called
            <=> (tick.scan.kind = "stats" /\ HasMatch(tick.scan.stats))
       /\ tick.summary.called => tick.summary.forwarded = tick.scan.stats

\* An iteration read new bytes that match nothing: no summarizer call.
C8_Witness ==
  /\ tick.phase = "poll"
  /\ tick.scan.kind = "stats"
  /\ ~HasMatch(tick.scan.stats)
  /\ \E f \in LogFiles : Position(f) = FileSize(f) /\ FileSize(f) > 0
  /\ ~tick.summary.called

\* C9 as claimed: the start of the loop forwards what the full scan returned
\* to the summarizer, whatever it is.
C9_InitialResultAlwaysForwarded ==
  (tick.phase = "start" /\ pc = "Polling") => tick.summary.called

\* C9, amended: the loop calls parse_logs exactly once, before any
\* parse_new_logs_only; the summarizer is then called exactly when parse_logs
\* returned statistics (empty or not), with those statistics.
C9_OneFullScanFirstForwardedIfStatistics ==
  /\ full_scans <= 1
  /\ pc # "Idle" => full_scans = 1
  /\ tick.phase = "poll" => full_scans = 1
  /\ pc = "Idle" => DOMAIN file_positions = {}
  /\ tick.phase = "start"
       => /\ tick.summary.called <=> tick.scan.kind = "stats"
          /\ tick.summary.called => tick.summary.forwarded = tick.scan.stats

\* The full scan of the start found files and nothing in them: the empty
\* statistics went to the summarizer.
C9_Witness ==
  /\ tick.phase = "start"
  /\ tick.scan = Returned(EmptyStats)
  /\ tick.summary.called
  /\ tick.summary.forwarded = EmptyStats
  /\ pc = "Polling"

\* C10: a scan of the loop on a directory that does not exist ends with an
\* error, not with the no-files result, and the loop has stopped.
C10_MissingDirectoryIsFatal ==
  (tick.phase \in {"start", "poll"} /\ ~dir_exists)
    => (tick.scan.kind = "raise" /\ pc = "Stopped")

\* C11: the loop stops only because it was cancelled. (glob does not raise
\* for a directory that is missing or unreadable, so the loop has no
\* enumeration error to stop for.) In particular no failure to open, read or
\* decode a file and no failure of the summarizer stops it.
C11_StoppedOnlyByCancellation ==
  pc = "Stopped" => exit = "interrupt"

\* C12: when the summarizer fails (ollama.generate raises an Exception; the
\* loop is not being cancelled), it was given the
\* statistics of the scan, run_analysis still returns what the scan
\* returned, the loop stays in Polling, and the positions are those the scan
\* left.
C12_SummarizerFailureChangesNothing ==
  [][ (tick'.summary.called /\ ~tick'.summary.answered /\ exit' # "interrupt")
      => /\ tick'.summary.forwarded = tick'.scan.stats
         /\ tick'.phase = "analysis"
              => result' = tick'.scan /\ file_positions' = file_positions
         /\ tick'.phase = "start"
              => pc' = "Polling" /\ file_positions' = file_positions
         /\ tick'.phase = "poll"
              => /\ pc' = "Polling"
                 /\ \E log_files \in Orders(LogFiles),
                       fl \in FaultsOf(LogFiles, {"stat", "open"}) :
                      LET r == ParseNewLogsOnly(file_positions, log_files, fl)
                      IN r.result = tick'.scan /\ r.positions = file_positions'
    ]_vars

\* An iteration of the loop read new events, the summarizer failed, and the
\* loop goes on.
C12_Witness ==
  /\ tick.phase = "poll"
  /\ tick.summary.called
  /\ ~tick.summary.answered
  /\ HasMatch(tick.scan.stats)
  /\ pc = "Polling"
  /\ \E f \in LogFiles : Position(f) = FileSize(f) /\ FileSize(f) > 0

\* C13: when the loop was stopped by cancellation, the cancellation did not
\* cut a scan short (no file was read without its position being recorded)
\* and did not cut a call of the summarizer short.
C13_CancelledBetweenTicksOnly ==
  (pc = "Stopped" /\ exit = "interrupt")
    => /\ tick.scan.kind # "interrupted"
       /\ ~tick.summary.raised

\* C14: two threads that scan through the same LogAnalyzer never both read
\* and count the same bytes of a file: the ranges read by the calls of two
\* threads do not overlap.
C14_NoByteCountedByTwoCallers ==
  \A t, u \in Callers :
    t # u =>
      \A r \in callers[t].ranges, q \in callers[u].ranges :
        r[1] = q[1] => (r[3] <= q[2] \/ q[3] <= r[2])

\* The lines of file f, and those of them that contain the text p.
ScannedLines(f) == SplitLines(content[f])
LinesWith(p, f) == SelectSeq(ScannedLines(f), LAMBDA l : Contains(p, l))

\* The number of lines of the files S that contain the text p.
RECURSIVE CountWith(_, _)
CountWith(p, S) ==
  IF S = {} THEN 0
  ELSE LET f == CHOOSE g \in S : TRUE
       IN Len(LinesWith(p, f)) + CountWith(p, S \ {f})

\* parse_logs has just returned statistics, having read every listed file.
FullScanDone ==
  /\ since.scan = "parse_logs"
  /\ result.kind = "stats"
  /\ faults = NoFaults

\* An event of the list events was recorded for the line l of file f.
Recorded(events, f, l) ==
  \E j \in DOMAIN events : events[j].file = f /\ events[j].line = Strip(l)

\* C15: after a full scan, there is a startup event for a scanned line
\* exactly when the line contains startup_msg, and a stop event exactly
\* when it contains stop_msg, one event per such line: a line with both
\* gives one of each.
C15_EventsIffPatternInLine ==
  FullScanDone =>
    /\ Len(result.stats.startup_events) = CountWith(startup_msg, LogFiles)
    /\ Len(result.stats.stop_events) = CountWith(stop_msg, LogFiles)
    /\ \A f \in LogFiles : \A i \in DOMAIN ScannedLines(f) :
         LET l == ScannedLines(f)[i]
         IN /\ Contains(startup_msg, l)
                 <=> Recorded(result.stats.startup_events, f, l)
            /\ Contains(stop_msg, l)
                 <=> Recorded(result.stats.stop_events, f, l)

\* A full scan of one line that holds both messages: one event of each kind.
C15_Witness ==
  /\ FullScanDone
  /\ LogFiles = {"a.log"}
  /\ Len(ScannedLines("a.log")) = 1
  /\ Contains(startup_msg, content["a.log"])
  /\ Contains(stop_msg, content["a.log"])
  /\ Len(result.stats.startup_events) = 1
  /\ Len(result.stats.stop_events) = 1

\* Counter's value for a key: 0 for a key it does not hold.
CountOf(stats, msg) ==
  IF msg \in DOMAIN stats.message_counts THEN stats.message_counts[msg] ELSE 0

C17_NoFilesIsNotEmptyStatistics ==
  (since.scan = "parse_logs" /\ result.kind \in {"None", "stats"})
    => /\ result = None <=> LogFiles = {}
       /\ result.kind = "stats" <=> LogFiles # {}

\* A full scan of a file whose only line matches nothing: empty statistics,
\* not None.
C17_Witness ==
  /\ FullScanDone
  /\ \E f \in LogFiles : content[f] = <<"o", "k", "\n">>
  /\ result = Returned(EmptyStats)

\* The step is a call of one of the two scan methods by a caller.
ScanStep ==
  /\ result'.kind # "none"
  /\ since'.scan \in {"parse_logs", "parse_new_logs_only"}

\* The bytes of f that the scan call of this step reads: none when a system
\* call fails for f, the whole file in a full scan, the bytes after the
\* recorded position in an incremental scan.
BytesOfCall(f) ==
  IF faults'[f] # "none" THEN <<>>
  ELSE IF since'.scan = "parse_logs" THEN content[f]
  ELSE Pending(f)

\* The file and the text of the events due for the lines among those bytes
\* that contain p, in line order; and those of the files log_files, in the
\* order of log_files.
EventsIn(p, f) ==
  LET ls == SelectSeq(SplitLines(BytesOfCall(f)), LAMBDA l : Contains(p, l))
  IN [ j \in 1..Len(ls) |-> [ file |-> f, line |-> Strip(ls[j]) ] ]

RECURSIVE EventsInOrder(_, _)
EventsInOrder(p, log_files) ==
  IF log_files = <<>> THEN <<>>
  ELSE EventsIn(p, Head(log_files)) \o EventsInOrder(p, Tail(log_files))

FileAndLine(events) ==
  [ j \in DOMAIN events |->
      [ file |-> events[j].file, line |-> events[j].line ] ]

\* C18: the statistics a scan returns list the startup events and the stop
\* events file by file in one order of the listed files, and within a file
\* in the order of its lines; no count is negative.
C18_EventsInScanOrder ==
  [][ (ScanStep /\ result'.kind = "stats")
      => /\ \E log_files \in Orders(LogFiles) :
              /\ FileAndLine(result'.stats.startup_events)
                   = EventsInOrder(startup_msg, log_files)
              /\ FileAndLine(result'.stats.stop_events)
                   = EventsInOrder(stop_msg, log_files)
         /\ \A msg \in DOMAIN result'.stats.message_counts :
              result'.stats.message_counts[msg] >= 0 ]_vars

\* A scan returned three startup events, of two lines of a.log with
\* different texts and then of a line of b.log.
C18_Witness ==
  /\ result.kind = "stats"
  /\ Len(result.stats.startup_events) = 3
  /\ result.stats.startup_events[1].file = "a.log"
  /\ result.stats.startup_events[2].file = "a.log"
  /\ result.stats.startup_events[3].file = "b.log"
  /\ result.stats.startup_events[1].line # result.stats.startup_events[2].line
  /\ result.stats.startup_events[1].line = Strip(ScannedLines("a.log")[1])

\* The event carries the first text of its line that has the form
\* DD-MM-YYYY HH:MM:SS, or "Unknown Time" when the line has none.
FirstTimeOrUnknown(event) ==
  LET hits == { i \in 1..Len(event.line) : TimeMatchesAt(event.line, i) }
  IN IF hits = {} THEN event.timestamp = UnknownTime
     ELSE \E i \in hits :
            /\ \A k \in hits : i <= k
            /\ event.timestamp = SubSeq(event.line, i, i + 18)

\* C19: every event of a returned statistics carries the first timestamp of
\* its line, or "Unknown Time"; and a full scan of readable files returns
\* statistics with an event for every line that holds a message, with or
\* without a timestamp.
C19_TimestampIsFirstMatchOrUnknown ==
  /\ result.kind = "stats" =>
       /\ \A j \in DOMAIN result.stats.startup_events :
            FirstTimeOrUnknown(result.stats.startup_events[j])
       /\ \A j \in DOMAIN result.stats.stop_events :
            FirstTimeOrUnknown(result.stats.stop_events[j])
  /\ (since.scan = "parse_logs" /\ LogFiles # {} /\ AllDecodable)
       => /\ result.kind = "stats"
          /\ Len(result.stats.startup_events)
               = CountWith(startup_msg, LogFiles)
          /\ Len(result.stats.stop_events) = CountWith(stop_msg, LogFiles)

\* A startup event of a line that holds two different timestamps carries the
\* first one, and an event of a line without one carries "Unknown Time".
C19_Witness ==
  /\ result.kind = "stats"
  /\ Len(result.stats.startup_events) = 2
  /\ LET e == result.stats.startup_events[1]
     IN /\ Occurrences(Time1, e.line) = 1
        /\ Occurrences(Time2, e.line) = 1
        /\ e.timestamp = Time2
  /\ result.stats.startup_events[2].timestamp = UnknownTime

\* The number of lines among the bytes that the scan call of this step reads
\* from the files S that contain the text p.
RECURSIVE LinesRead(_, _)
LinesRead(p, S) ==
  IF S = {} THEN 0
  ELSE LET f == CHOOSE g \in S : TRUE
       IN Len(SelectSeq(SplitLines(BytesOfCall(f)), LAMBDA l : Contains(p, l)))
            + LinesRead(p, S \ {f})

\* C20: the statistics a scan call returns hold what the bytes read by that
\* call contribute and nothing else: nothing of what an earlier call
\* returned is in them.
C20_StatisticsOfThisCallOnly ==
  [][ (ScanStep /\ result'.kind = "stats")
      => /\ Len(result'.stats.startup_events) = LinesRead(startup_msg, LogFiles)
         /\ Len(result'.stats.stop_events) = LinesRead(stop_msg, LogFiles)
         /\ \A i \in DOMAIN search_list :
              CountOf(result'.stats, search_list[i])
                = LinesRead(search_list[i], LogFiles) ]_vars

\* An incremental scan of a file with two startup lines, of which it had read
\* the first before, returned one startup event.
C20_Witness ==
  /\ since.scan = "parse_new_logs_only"
  /\ result.kind = "stats"
  /\ Len(result.stats.startup_events) = 1
  /\ \E f \in LogFiles :
       /\ Len(LinesWith(startup_msg, f)) = 2
       /\ Position(f) = FileSize(f)

\* The events of the list events that are of file f.
EventsOf(events, f) == SelectSeq(events, LAMBDA e : e.file = f)

\* C21: an incremental scan leaves the position of a listed file whose size
\* is its recorded position as it is and returns no event of it, whatever
\* the other files are like; when no listed file is larger than its
\* position, the scan returns None.
C21_UnchangedFileContributesNothing ==
  [][ IncStep =>
        /\ \A f \in LogFiles :
             FileSize(f) = Position(f)
               => /\ PositionFor(file_positions', f) = Position(f)
                  /\ EventsOf(result'.stats.startup_events, f) = <<>>
                  /\ EventsOf(result'.stats.stop_events, f) = <<>>
        /\ (\A f \in LogFiles : FileSize(f) <= Position(f))
             => result' = None ]_vars

\* An incremental scan returned statistics for the new line of one file
\* while the other file, with a startup line read before, had not changed.
C21_Witness ==
  /\ since.scan = "parse_new_logs_only"
  /\ result.kind = "stats"
  /\ LogFiles = Files
  /\ Len(LinesWith(startup_msg, "a.log")) = 1
  /\ Position("a.log") = FileSize("a.log")
  /\ result.stats.startup_events = <<>>
  /\ Position("b.log") = FileSize("b.log")
  /\ FileSize("b.log") > 0

\* The positions of the files of S only.
OnlyOf(positions, S) == [f \in DOMAIN positions \cap S |-> positions[f]]

\* C23: an incremental scan made while the map holds positions of files
\* that are no longer listed keeps the position of every file that is in the
\* map but no longer listed, returns no event of such a file, and returns
\* what a scanner that has only the positions of the listed files returns
\* for the same listing, leaving the listed files at the same positions.
C23_PositionsOfDeletedFilesAreHarmless ==
  [][ (IncStep /\ DOMAIN file_positions \ LogFiles # {}) =>
        /\ \A f \in DOMAIN file_positions \ LogFiles :
             /\ f \in DOMAIN file_positions'
             /\ file_positions'[f] = file_positions[f]
             /\ EventsOf(result'.stats.startup_events, f) = <<>>
             /\ EventsOf(result'.stats.stop_events, f) = <<>>
        /\ \E log_files \in Orders(LogFiles) :
             LET clean == ParseNewLogsOnly(OnlyOf(file_positions, LogFiles),
                                           log_files, faults')
             IN /\ clean.result = result'
                /\ \A f \in LogFiles :
                     PositionFor(clean.positions, f)
                       = PositionFor(file_positions', f) ]_vars

\* a.log was read and then deleted; the incremental scan after that returned
\* the new line of b.log, and the position of a.log is still in the map.
C23_Witness ==
  /\ since.scan = "parse_new_logs_only"
  /\ result.kind = "stats"
  /\ "a.log" \in DOMAIN file_positions
  /\ "a.log" \notin LogFiles
  /\ file_positions["a.log"] > 0
  /\ LogFiles = {"b.log"}
  /\ Position("b.log") = FileSize("b.log")
  /\ Len(result.stats.stop_events) = 1

\* C27: when run_analysis has returned, the summarizer was called exactly if
\* the full scan returned statistics and generate_summary was true, and
\* what run_analysis returned is what a full scan of the files returns,
\* whether the summarizer was called, answered or failed.
C27_RunAnalysisReturnsTheFullScan ==
  tick.phase \in {"analysis", "analysis_only"} =>
    /\ tick.summary.called
          <=> (tick.scan.kind = "stats" /\ tick.phase = "analysis")
    /\ \E log_files \in Orders(LogFiles) :
         result = ParseLogs(log_files, faults)

\* run_analysis was called without the summary: the full scan returned
\* statistics with an event, the summarizer was not called and the
\* statistics were returned.
C27_Witness ==
  /\ tick.phase = "analysis_only"
  /\ tick.scan.kind = "stats"
  /\ ~tick.summary.called
  /\ result = tick.scan
  /\ Len(result.stats.startup_events) = 1

\* C22: the position of a listed file is never inside a line: it is 0, or
\* the byte before it is a newline, so that a line whose newline is not
\* written yet is left for a later scan.
C22_PositionNeverInsideALine ==
  \A f \in DOMAIN file_positions \cap LogFiles :
    (file_positions[f] > 0 /\ file_positions[f] <= FileSize(f))
      => content[f][file_positions[f]] = "\n"

C26_IncrementalScansAddUpToTheFullScan ==
  result.kind \in {"stats", "None"} =>
    \E log_files \in Orders(LogFiles) :
      LET full == ParseLogs(log_files, NoFaults).stats
      IN /\ \A f \in Files :
              /\ EventsOf(reported.startup_events, f)
                   = EventsOf(full.startup_events, f)
              /\ EventsOf(reported.stop_events, f)
                   = EventsOf(full.stop_events, f)
         /\ \A i \in DOMAIN search_list :
              CountOf(reported, search_list[i]) = CountOf(full, search_list[i])

\* Two incremental scans with an append between them each returned one
\* startup event of the same file.
C26_Witness ==
  /\ result.kind = "stats"
  /\ Len(result.stats.startup_events) = 1
  /\ Len(reported.startup_events) = 2
  /\ reported.startup_events[1].file = reported.startup_events[2].file

\* The order of the statements of an iteration, step by step: the call of
\* the summarizer begins only when the scan of the iteration has returned
\* new events, and is handed what that scan returned; the sleep begins only
\* when the summarizer has returned or the scan returned nothing to
\* summarize; a scan is made, and an iteration begun, only after the sleep
\* of the one before (or after the initial scan).
TickOrder ==
  /\ (pc' = "Summarizing" /\ pc # "Summarizing")
       => (pc = "Polling" /\ NewSummaryDue(loop_new_data'))
  /\ (tick'.phase = "poll" /\ tick'.summary.called)
       => (pc = "Summarizing"
           /\ tick'.summary.forwarded = loop_new_data.stats)
  /\ (pc' = "Sleeping" /\ pc # "Sleeping")
       => \/ pc = "Summarizing"
          \/ pc = "Polling" /\ ~NewSummaryDue(loop_new_data')
  /\ (pc' = "Polling" /\ pc # "Polling") => pc \in {"Idle", "Sleeping"}
  /\ (file_positions' # file_positions
        \/ (tick'.phase = "poll" /\ ~tick'.summary.called))
       => (pc = "Polling" /\ pc' \in {"Summarizing", "Sleeping", "Stopped"})

\* The scan of an iteration has just returned.
ScanJustMade ==
  tick.phase = "poll" /\ ~tick.summary.called /\ pc \in {"Summarizing", "Sleeping"}

\* C24: the statements of the monitoring loop run one after the other in
\* the order scan, summarizer call, sleep, next scan, and while the loop
\* runs and is not stopped, the scan of one more iteration is always made
\* again.
C24_TicksInOrderAndFollowedByTheNext ==
  /\ [][TickOrder]_vars
  /\ []<>(pc \in {"Idle", "Stopped"} \/ ScanJustMade)

\* The loop sleeps after an iteration whose scan returned a new startup
\* event and whose call of the summarizer was answered.
C24_Witness ==
  /\ pc = "Sleeping"
  /\ tick.phase = "poll"
  /\ tick.summary.called
  /\ tick.summary.answered
  /\ loop_new_data.kind = "stats"
  /\ Len(loop_new_data.stats.startup_events) = 1

====
